---------------------------- MODULE Spec2Model ----------------------------
(***************************************************************************)
(* df_auth: the request handlers of df_auth/drf (token issuance, the       *)
(* capability-matching backend chain behind POST /otp/, the OTP device     *)
(* view set and the social handshake) and the older SocialAuth view set of *)
(* df_auth/viewsets.py, as state machines over the persistent store        *)
(* (users, OTP devices, social links).  Every handler is one atomic        *)
(* action: the handlers are synchronous and the store serialises writes.   *)
(* Calls into Django, simplejwt, django_otp and social_core are the        *)
(* environment: their results are inputs drawn with \E, or are computed as *)
(* those libraries document them (noted at each definition).               *)
(***************************************************************************)
EXTENDS Integers, Sequences, FiniteSets, TLC

VARIABLES
    users,                    \* the User table: id -> row
    devices,                  \* the OTP device tables: a set of rows, keyed by (type, pk)
    nextpk,                   \* per device table, the next auto-increment pk
    links,                    \* social_django's UserSocialAuth: provider uid -> user id
    AUTHENTICATION_BACKENDS,  \* serializers.py: the imported backend classes, in order
    simplejwt_settings,       \* rest_framework_simplejwt settings the code reads
    api_settings,             \* df_auth settings the code reads
    req,                      \* the request being answered
    resp,                     \* its response, with what the handler did on the way
    passed,                   \* history: devices whose verify_token returned True in confirm
    tried                     \* history: the confirm requests that submitted the code of a
                              \*   device's pending challenge since the last send_otp on it

vars == <<users, devices, nextpk, links, AUTHENTICATION_BACKENDS,
          simplejwt_settings, api_settings, req, resp, passed, tried>>

None == "None"

(***************************************************************************)
(* Bounds of the model.                                                    *)
(***************************************************************************)
MaxSubmitted == 2      \* fields present in one request body
MaxBackends == 3       \* length of the configured backend chain
MaxDevices == 1        \* devices created in one behaviour
MaxNewUsers == 1       \* users the social pipeline creates in one behaviour

(***************************************************************************)
(* Strings whose content matters are tuples of one-character strings.      *)
(***************************************************************************)
Blank == << >>
Lower(c) == IF c = "B" THEN "b" ELSE c

RECURSIVE LastAt(_, _)
LastAt(s, i) == IF i = 0 THEN 0 ELSE IF s[i] = "@" THEN i ELSE LastAt(s, i - 1)

\* BaseUserManager.normalize_email, called by validate_email: the part after
\* the last "@" is lower-cased; a value without "@" is returned as it is.
normalize_email_lowers_all(email) == [i \in 1..Len(email) |-> Lower(email[i])]

normalize_email(email) ==
    LET at == LastAt(email, Len(email))
    IN  IF at = 0 THEN email
        ELSE [i \in 1..Len(email) |-> IF i > at THEN Lower(email[i]) ELSE email[i]]

\* IdentitySerializerMixin.validate_email
validate_email(value) == normalize_email(value)

(***************************************************************************)
(* df_auth/settings.py DEFAULTS: the field names (only the keys are used,  *)
(* every field is built as a CharField).                                   *)
(***************************************************************************)
USER_IDENTITY_FIELDS == {"username", "email", "phone_number"}
REQUIRED_AUTH_FIELDS == {}
OPTIONAL_AUTH_FIELDS == {"otp", "password"}

\* build_required_fields / build_optional_fields: field name -> allow_blank
build_required_fields(fields) == [f \in fields |-> [required |-> TRUE, allow_blank |-> FALSE]]
build_optional_fields(fields) == [f \in fields |-> [required |-> FALSE, allow_blank |-> TRUE]]

\* IdentitySerializerMixin.get_fields
IdentitySerializerMixin_get_fields == build_optional_fields(USER_IDENTITY_FIELDS)

\* TokenObtainSerializer.get_fields: fields.update(required, optional)
TokenObtainSerializer_get_fields ==
    LET upd == build_required_fields(REQUIRED_AUTH_FIELDS)
               @@ build_optional_fields(OPTIONAL_AUTH_FIELDS)
    IN  upd @@ IdentitySerializerMixin_get_fields

\* AuthBackendSerializerMixin.get_fields: all auth fields optional
AuthBackendSerializerMixin_get_fields ==
    build_optional_fields(REQUIRED_AUTH_FIELDS \cup OPTIONAL_AUTH_FIELDS)
    @@ IdentitySerializerMixin_get_fields

AllFields == USER_IDENTITY_FIELDS \cup REQUIRED_AUTH_FIELDS \cup OPTIONAL_AUTH_FIELDS

\* The values a client submits for a field.
FieldValues(f) == IF f = "email" THEN {Blank, <<"B", "@", "B">>, <<"B">>}
                  ELSE {Blank, <<"x">>}

Bodies == UNION { {d \in [S -> UNION {FieldValues(f) : f \in S}] :
                      \A f \in S : d[f] \in FieldValues(f)} :
                  S \in {T \in SUBSET AllFields : Cardinality(T) <= MaxSubmitted} }

\* Serializer.run_validation over the declared fields: a missing required
\* field or a blank value where allow_blank is False is a ValidationError;
\* unknown keys are dropped; validate_<field> runs on each present field.
fields_valid(fields, data) ==
    \A f \in DOMAIN fields :
        /\ fields[f].required => f \in DOMAIN data
        /\ (f \in DOMAIN data /\ data[f] = Blank) => fields[f].allow_blank

to_internal_value(fields, data) ==
    [f \in (DOMAIN data) \cap (DOMAIN fields) |->
        IF f = "email" THEN validate_email(data[f]) ELSE data[f]]

\* attrs = {k: v for k, v in attrs.items() if v}
RemoveEmpty_keeps_all(attrs) == attrs

RemoveEmpty(attrs) ==
    [k \in {f \in DOMAIN attrs : attrs[f] # Blank} |-> attrs[k]]

(***************************************************************************)
(* Users.  A row: is_active, the identity fields, the names, last_login.   *)
(* last_login is None until update_last_login stamps it; the stamp itself  *)
(* is the current time, of which only "stamped" is kept, and resp.saved    *)
(* records every write a request makes.                                    *)
(***************************************************************************)
UserIds == {"u1", "u2", "u3"}
Stamped == "now"

NewUser(active, first, last) ==
    [is_active |-> active, email |-> None, phone_number |-> None,
     first_name |-> first, last_name |-> last, last_login |-> None]

\* An exception of rest_framework.exceptions, by class and error code.
AuthenticationFailed_default == [exc |-> "AuthenticationFailed", code |-> "authentication_failed"]
AuthenticationFailed_not_found == [exc |-> "AuthenticationFailed", code |-> "not_found"]
ValidationError == [exc |-> "ValidationError", code |-> "invalid"]
NoError == [exc |-> None, code |-> None]

(***************************************************************************)
(* Token issuance.                                                         *)
(***************************************************************************)
\* simplejwt_settings.USER_AUTHENTICATION_RULE, simplejwt's default rule:
\* user is not None and user.is_active
USER_AUTHENTICATION_RULE(user, us) == user # None /\ us[user].is_active

\* TokenCreateSerializer.get_token, then str(token): a token for that user
get_token(user) == <<"token", user>>

\* django.contrib.auth.models.update_last_login
update_last_login(us, user) == [us EXCEPT ![user].last_login = Stamped]

TokenCreateSerializer_validate_no_rule(user, us) ==
    LET upd == simplejwt_settings.UPDATE_LAST_LOGIN /\ user # None
    IN  [error |-> NoError, token |-> get_token(user),
         users |-> IF upd THEN update_last_login(us, user) ELSE us,
         saved |-> IF upd THEN {<<user, "last_login">>} ELSE {}]

\* TokenCreateSerializer.validate, for self.user = user over the user table us
TokenCreateSerializer_validate(user, us) ==
    IF ~USER_AUTHENTICATION_RULE(user, us)
    THEN [error |-> AuthenticationFailed_default, token |-> None,
          users |-> us, saved |-> {}]
    ELSE LET upd == simplejwt_settings.UPDATE_LAST_LOGIN
         IN  [error |-> NoError, token |-> get_token(user),
              users |-> IF upd THEN update_last_login(us, user) ELSE us,
              saved |-> IF upd THEN {<<user, "last_login">>} ELSE {}]

(***************************************************************************)
(* The backend chain.  A backend class is the set of its attribute names;  *)
(* what a backend answers to a call is the environment's choice, ans[i]    *)
(* for the i-th backend: a user id or None.                                *)
(***************************************************************************)
ModelBackend == {"authenticate"}
OTPBackend == {"authenticate", "generate_challenge"}
BackendClasses == {ModelBackend, OTPBackend}

hasattr(backend, name) == name \in backend

Chains == UNION {[1..n -> BackendClasses] : n \in 0..MaxBackends}
\* Only a backend that has the method is ever called with it.
Having(chain, method) == {i \in DOMAIN chain : hasattr(chain[i], method)}
Answers(chain, method, callers) == [Having(chain, method) -> callers \cup {None}]

\* The loop of AuthBackendSerializerMixin.validate from backend i on:
\* the user found (or None) and the backends called, in order.
RECURSIVE backend_loop_calls_all(_, _, _, _, _)
backend_loop_calls_all(i, chain, method, ans, calls) ==
    IF i > Len(chain) THEN [user |-> None, calls |-> calls]
    ELSE IF method # None /\ hasattr(chain[i], method)
         THEN LET rest == backend_loop_calls_all(i + 1, chain, method, ans, Append(calls, i))
              IN  IF ans[i] # None THEN [user |-> ans[i], calls |-> rest.calls]
                  ELSE rest
         ELSE backend_loop_calls_all(i + 1, chain, method, ans, calls)

RECURSIVE backend_loop_rec(_, _, _, _, _)
backend_loop_rec(i, chain, method, ans, calls) ==
    IF i > Len(chain) THEN [user |-> None, calls |-> calls]
    ELSE IF method # None /\ hasattr(chain[i], method)
         THEN IF ans[i] # None
              THEN [user |-> ans[i], calls |-> Append(calls, i)]
              ELSE backend_loop_rec(i + 1, chain, method, ans, Append(calls, i))
         ELSE backend_loop_rec(i + 1, chain, method, ans, calls)

backend_loop(chain, method, ans) == backend_loop_rec(1, chain, method, ans, << >>)

\* django.contrib.auth.authenticate(**attrs, **context): the framework's one
\* call; the user it returns, or None, is the environment's choice.
authenticate(found) == found

\* OTPObtainSerializer.backend_method_name
OTPObtainSerializer_backend_method_name == "generate_challenge"

(***************************************************************************)
(* Requests and responses.  resp records the error raised (NoError for a   *)
(* 2xx response), the token returned, the user the serializer resolved,    *)
(* the field sets handed to the backends (none when no backend call was    *)
(* made), the backend or device methods called in order, the (user,       *)
(* field) writes, the rows a list request returns, and the social          *)
(* handshake: whether do_auth was called, the user it was given as a hint, *)
(* the user it returned and that user's row at that moment.                *)
(***************************************************************************)
NoRequest == [op |-> "none"]
NoHandshake == [called |-> FALSE, hint |-> None, user |-> None,
                row |-> NewUser(FALSE, Blank, Blank)]
NoResponse == [error |-> NoError, token |-> None, user |-> None,
               handed |-> {}, calls |-> << >>, saved |-> {}, listed |-> {},
               handshake |-> NoHandshake, sent |-> None]

Unused == <<devices, nextpk, links, AUTHENTICATION_BACKENDS,
            simplejwt_settings, api_settings, passed, tried>>

\* A worker answers one request at a time; req and resp are that request's
\* objects and go away when the response has been returned.
Idle == req = NoRequest

EndRequest ==
    /\ ~Idle
    /\ req' = NoRequest
    /\ resp' = NoResponse
    /\ UNCHANGED <<users, devices, nextpk, links, AUTHENTICATION_BACKENDS,
                   simplejwt_settings, api_settings, passed, tried>>

\* POST /token/: ValidationOnlyCreateViewSet.create with TokenObtainSerializer
\* (field validation, TokenObtainSerializer.validate, TokenCreateSerializer.validate)
TokenViewSet_create ==
    \E data \in Bodies, found \in DOMAIN users \cup {None} :
        LET fields == TokenObtainSerializer_get_fields
            attrs == RemoveEmpty(to_internal_value(fields, data))
            user == authenticate(found)
            out == TokenCreateSerializer_validate(user, users)
        IN  /\ Idle
            /\ req' = [op |-> "token", data |-> data, found |-> found]
            /\ IF ~fields_valid(fields, data)
               THEN /\ resp' = [NoResponse EXCEPT !.error = ValidationError]
                    /\ users' = users
               ELSE /\ resp' = [NoResponse EXCEPT !.error = out.error,
                                !.token = out.token, !.user = user,
                                !.handed = {attrs}, !.saved = out.saved]
                    /\ users' = out.users
            /\ UNCHANGED Unused

\* AuthBackendSerializerMixin.validate for OTPObtainSerializer: the user
\* resolved, the error raised, the calls made
AuthBackendSerializerMixin_validate(attrs, ans) ==
    LET found == backend_loop(AUTHENTICATION_BACKENDS,
                              OTPObtainSerializer_backend_method_name, ans)
    IN  [error |-> IF found.user # None THEN NoError
                   ELSE AuthenticationFailed_not_found,
         user |-> found.user, calls |-> found.calls]

\* POST /otp/: ValidationOnlyCreateViewSet.create with OTPObtainSerializer
OTPViewSet_create ==
    \E data \in Bodies,
       ans \in Answers(AUTHENTICATION_BACKENDS,
                       OTPObtainSerializer_backend_method_name, DOMAIN users) :
        LET fields == AuthBackendSerializerMixin_get_fields
            attrs == RemoveEmpty(to_internal_value(fields, data))
            out == AuthBackendSerializerMixin_validate(attrs, ans)
        IN  /\ Idle
            /\ req' = [op |-> "otp", data |-> data, ans |-> ans]
            /\ IF ~fields_valid(fields, data)
               THEN resp' = [NoResponse EXCEPT !.error = ValidationError]
               ELSE resp' = [NoResponse EXCEPT !.error = out.error,
                             !.user = out.user,
                             !.handed = IF out.calls = << >> THEN {} ELSE {attrs},
                             !.calls = out.calls]
            /\ UNCHANGED users
            /\ UNCHANGED Unused

InitAuth ==
    /\ users = [u \in {"u1", "u2"} |-> NewUser(u = "u1", Blank, Blank)]
    /\ devices = {}
    /\ nextpk = [t \in {} |-> 1]
    /\ links = [x \in {} |-> None]
    /\ AUTHENTICATION_BACKENDS \in Chains
    /\ simplejwt_settings \in [UPDATE_LAST_LOGIN : BOOLEAN]
    /\ api_settings = [OTP_IDENTITY_UPDATE_FIELD |-> TRUE]
    /\ req = NoRequest
    /\ resp = NoResponse
    /\ passed = {}
    /\ tried = {}

NextAuth == TokenViewSet_create \/ OTPViewSet_create \/ EndRequest

SpecAuth == InitAuth /\ [][NextAuth]_vars

(***************************************************************************)
(* Claims about token issuance and the backend chain (SpecAuth).           *)
(***************************************************************************)
Range(f) == {f[i] : i \in DOMAIN f}
Least(S) == CHOOSE x \in S : \A y \in S : x <= y

\* The backends of the chain that answer a user to this request.
Resolving(ans) == {i \in DOMAIN ans : ans[i] # None}

\* C1: a POST /token/ request returns a token if and only if the backend
\* chain resolved a user and that user passes USER_AUTHENTICATION_RULE (is
\* active); the token is that user's; otherwise the request raises
\* AuthenticationFailed, returns no token and writes nothing, so no user's
\* last_login changes.
C1_TokenIffResolvedAndRule ==
    [][(Idle /\ req'.op = "token") =>
        LET ok == req'.found # None /\ users[req'.found].is_active
        IN  /\ (resp'.token # None) <=> ok
            /\ ok => /\ resp'.token = <<"token", req'.found>>
                      /\ resp'.error = NoError
            /\ ~ok => /\ resp'.error = AuthenticationFailed_default
                       /\ resp'.saved = {}
                       /\ users' = users]_vars

\* C1 witness: the chain resolved an inactive user while last-login updates
\* are on, and the request failed without a token.
C1_Witness ==
    /\ req.op = "token"
    /\ simplejwt_settings.UPDATE_LAST_LOGIN
    /\ req.found # None
    /\ ~users[req.found].is_active
    /\ resp.error = AuthenticationFailed_default
    /\ resp.token = None

\* The backends of the chain that expose generate_challenge.
Capable == {i \in DOMAIN AUTHENTICATION_BACKENDS :
               "generate_challenge" \in AUTHENTICATION_BACKENDS[i]}

\* C2: in POST /otp/, a failure with a capable backend in the chain raises
\* the plain AuthenticationFailed, a failure with no capable backend raises
\* the "not_found" variant, so that the two error codes differ.
C2_FailuresDistinguishable ==
    (req.op = "otp" /\ resp.error.exc = "AuthenticationFailed") =>
        /\ Capable # {} => resp.error = AuthenticationFailed_default
        /\ Capable = {} => resp.error = AuthenticationFailed_not_found

\* What the code does instead: every failure of the loop carries "not_found".
C2_EveryFailureIsNotFound ==
    (req.op = "otp" /\ resp.error # NoError) =>
        resp.error = AuthenticationFailed_not_found

\* C3: POST /otp/ calls the capable backends in configured order, skips the
\* others, returns the user of the first capable backend that answers one,
\* and calls no backend after it.
C3_FirstResolvingBackendWins ==
    (req.op = "otp" /\ resp.error # ValidationError) =>
        LET hits == Resolving(req.ans)
            calls == resp.calls
        IN  /\ \A k \in 1..(Len(calls) - 1) : calls[k] < calls[k + 1]
            /\ IF hits = {}
               THEN /\ resp.user = None
                    /\ Range(calls) = Capable
               ELSE /\ resp.user = req.ans[Least(hits)]
                    /\ resp.error = NoError
                    /\ Range(calls) = {i \in Capable : i <= Least(hits)}

\* C3 witness: a chain [A, B, C] of capable backends where A answers None, B
\* answers a user and C would answer another one: B's user, C not called.
C3_Witness ==
    /\ req.op = "otp"
    /\ Len(AUTHENTICATION_BACKENDS) = 3
    /\ Capable = {1, 2, 3}
    /\ req.ans[1] = None
    /\ req.ans[2] # None
    /\ req.ans[3] \notin {None, req.ans[2]}
    /\ resp.user = req.ans[2]
    /\ resp.calls = <<1, 2>>

\* The submitted value v and the value w handed on agree but for the
\* lower-casing of an email's domain.
SameButEmailDomain(f, v, w) ==
    IF f # "email" THEN w = v
    ELSE /\ Len(w) = Len(v)
         /\ \A i \in 1..Len(v) :
               IF \E j \in i..Len(v) : v[j] = "@" THEN w[i] = v[i]
               ELSE IF \E j \in 1..Len(v) : v[j] = "@" THEN w[i] = Lower(v[i])
               ELSE w[i] = v[i]

get_otp_device_models == {"email", "totp", "sms"}

Anonymous == "anonymous"
\* The name a create request gives; the code takes it as the address of an
\* email device and as the number of an SMS device without looking at it.
Names == {"a@b.com"}
Codes == {"111", "222"}

DfAuthValidationError == [exc |-> "DfAuthValidationError", code |-> "invalid"]
WrongOTPError == [exc |-> "WrongOTPError", code |-> "wrong_otp"]
NotAuthenticated == [exc |-> "NotAuthenticated", code |-> "not_authenticated"]
PermissionDenied == [exc |-> "PermissionDenied", code |-> "permission_denied"]
DoesNotExist == [exc |-> "DoesNotExist", code |-> None]
KeyError == [exc |-> "KeyError", code |-> None]
IntegrityError == [exc |-> "IntegrityError", code |-> None]

Key(d) == <<d.type, d.pk>>

\* The rows inserted so far, over all device tables.
Created == nextpk["email"] + nextpk["totp"] + nextpk["sms"] - 3

\* permissions.IsAuthenticated
IsAuthenticated(caller) == caller # Anonymous

\* OtpDeviceViewSet.get_queryset: the caller's devices of every table
get_queryset(caller, devs) == {d \in devs : d.user = caller}

\* OtpDeviceViewSet.get_object after get_device_model: the rows of the
\* table of that type with this pk and this user (none or one)
get_object_any_user(caller, type, pk, devs) ==
    {d \in devs : d.type = type /\ d.pk = pk}

get_object(caller, type, pk, devs) ==
    {d \in devs : d.type = type /\ d.pk = pk /\ d.user = caller}

\* OTPDeviceSerializer.create: the row DeviceModel.objects.create(**data)
\* inserts; name is given (the caller of this operator checks it where the
\* code reads validated_data["name"])
OTPDeviceSerializer_create_confirmed(caller, type, name, pk) ==
    [type |-> type, pk |-> pk, user |-> caller,
     name |-> IF name = None THEN "default" ELSE name,
     email |-> IF type = "email" THEN name ELSE None,
     number |-> IF type = "sms" THEN name ELSE None,
     confirmed |-> TRUE, token |-> None, throttled |-> FALSE]

OTPDeviceSerializer_create(caller, type, name, pk) ==
    [type |-> type, pk |-> pk, user |-> caller,
     name |-> IF name = None THEN "default" ELSE name,
     email |-> IF type = "email" THEN name ELSE None,
     number |-> IF type = "sms" THEN name ELSE None,
     confirmed |-> FALSE, token |-> None, throttled |-> FALSE]

\* POST /otp-devices/: CreateModelMixin.create with OTPDeviceSerializer
CreateRequests ==
    [caller : DOMAIN users, type : {"email", "sms"}, name : Names \cup {None}]
    \cup [caller : DOMAIN users, type : {"totp"}, name : {None}]
    \cup [caller : {Anonymous}, type : {"email"}, name : Names]
    \cup [caller : DOMAIN users, type : {"bogus"}, name : Names]

OtpDeviceViewSet_create ==
    \E c \in CreateRequests :
        LET caller == c.caller
            type == c.type
            name == c.name
            error == IF ~IsAuthenticated(caller) THEN NotAuthenticated
                     ELSE IF type \notin get_otp_device_models THEN ValidationError
                     ELSE IF type \in {"sms", "email"} /\ name = None THEN KeyError
                     ELSE NoError
        IN  /\ Idle
            /\ error = NoError => Created < MaxDevices
            /\ req' = [op |-> "create", caller |-> caller, type |-> type,
                       pk |-> None, name |-> name, otp |-> None, lib |-> FALSE]
            /\ resp' = [NoResponse EXCEPT !.error = error]
            /\ IF error = NoError
               THEN /\ devices' = devices \cup
                            {OTPDeviceSerializer_create(caller, type, name, nextpk[type])}
                    /\ nextpk' = [nextpk EXCEPT ![type] = @ + 1]
               ELSE UNCHANGED <<devices, nextpk>>
            /\ UNCHANGED <<users, links, AUTHENTICATION_BACKENDS,
                           simplejwt_settings, api_settings, passed, tried>>

\* ThrottlingMixin.verify_is_allowed of django_otp, which the three device
\* models mix in: after a failed verification the device refuses every
\* code until its delay has passed.
verify_is_allowed(d) == ~d.throttled

\* Device.verify_token(otp) of django_otp.  A side-channel device (email,
\* sms) accepts the code of its pending challenge: token is that code, None
\* when no challenge is pending (none was generated, it was accepted, or its
\* validity has passed).  A TOTP device accepts a code that matches its key
\* at the current time, which lib decides.
verify_token(d, otp, lib) ==
    /\ verify_is_allowed(d)
    /\ IF d.type = "totp" THEN otp # None /\ lib
       ELSE d.token # None /\ otp = d.token

\* The row after a successful verify_token: a side-channel device drops the
\* challenge it accepted (self.token = None; self.save()), and the
\* throttle is reset.
verified_row_replayable(d) == [d EXCEPT !.throttled = FALSE]

verified_row(d) == [d EXCEPT !.token = None, !.throttled = FALSE]

\* The history of a confirm request on device d with code otp: when otp is
\* the code of d's pending challenge, the request and whether verify_token
\* accepted it are remembered, in place of an earlier one with that code.
Attempt(d, otp, ok) ==
    IF d.type # "totp" /\ d.token # None /\ otp = d.token
    THEN {t \in tried : t.key # Key(d)}
            \cup {[key |-> Key(d), code |-> otp, accepted |-> ok]}
    ELSE tried

\* The row after a failed verify_token: throttle_increment starts the
\* delay; a device that was throttled did not look at the code and stays so.
failed_row(d) == [d EXCEPT !.throttled = TRUE]

\* if api_settings.OTP_IDENTITY_UPDATE_FIELD: ... in confirm: the user row
\* device.user.save() writes
identity_update_both(row, d) ==
    IF d.type \in {"email", "sms"}
    THEN [row EXCEPT !.email = d.name, !.phone_number = d.name]
    ELSE row

identity_update(row, d) ==
    IF ~api_settings.OTP_IDENTITY_UPDATE_FIELD THEN row
    ELSE IF d.type = "email" THEN [row EXCEPT !.email = d.name]
    ELSE IF d.type = "sms" THEN [row EXCEPT !.phone_number = d.number]
    ELSE row

\* User.email is unique (test_app migration 0002): saving a row whose email
\* another user holds raises IntegrityError.
email_taken(us, user, row) ==
    row.email # None /\ \E o \in DOMAIN us : o # user /\ us[o].email = row.email

\* The checks every detail route makes before its own code: the permission,
\* get_device_model, then objects.get(user=..., pk=...)
lookup_error(caller, type, found) ==
    IF ~IsAuthenticated(caller) THEN NotAuthenticated
    ELSE IF type \notin get_otp_device_models THEN DfAuthValidationError
    ELSE IF found = {} THEN DoesNotExist
    ELSE NoError

\* The ids a detail request names: those of the rows there are, and one
\* that names no row.
Ids == {Key(d) : d \in devices} \cup {<<"email", nextpk["email"]>>}

\* The detail requests: an authenticated caller with one of these ids and
\* any code (with the library's verdict on the code of a TOTP device), and
\* one request each of an anonymous caller and of an unknown type.
DeviceRequests ==
    {[op |-> "confirm", caller |-> c, type |-> k[1], pk |-> k[2],
      name |-> None, otp |-> o, lib |-> l] :
        c \in DOMAIN users, k \in Ids, o \in Codes, l \in {FALSE}}
    \cup
    {[op |-> "confirm", caller |-> c, type |-> k[1], pk |-> k[2],
      name |-> None, otp |-> o, lib |-> TRUE] :
        c \in DOMAIN users, k \in {i \in Ids : i[1] = "totp"}, o \in Codes}
    \cup
    {[op |-> "confirm", caller |-> c, type |-> k[1], pk |-> k[2],
      name |-> None, otp |-> None, lib |-> FALSE] :
        c \in DOMAIN users, k \in Ids}
    \cup
    [op : {"confirm"}, caller : {Anonymous}, type : {"email"},
     pk : {1}, name : {None}, otp : {None}, lib : {FALSE}]
    \cup
    [op : {"confirm"}, caller : DOMAIN users, type : {"bogus"},
     pk : {1}, name : {None}, otp : {None}, lib : {FALSE}]

\* POST /otp-devices/{pk}/confirm/?type=...
OtpDeviceViewSet_confirm ==
    \E r \in DeviceRequests :
        LET found == get_object(r.caller, r.type, r.pk, devices)
            error == lookup_error(r.caller, r.type, found)
            device == CHOOSE d \in found : TRUE
            ok == verify_token(device, r.otp, r.lib)
            saved_device == [verified_row(device) EXCEPT !.confirmed = TRUE]
            row == identity_update(users[device.user], device)
            taken == email_taken(users, device.user, row)
        IN  /\ Idle
            /\ req' = r
            /\ IF error # NoError
               THEN /\ resp' = [NoResponse EXCEPT !.error = error]
                    /\ UNCHANGED <<devices, users, passed, tried>>
               ELSE IF ~ok
               THEN /\ resp' = [NoResponse EXCEPT !.error = WrongOTPError,
                                !.calls = <<<<"verify_token", Key(device)>>>>]
                    /\ devices' = (devices \ {device}) \cup {failed_row(device)}
                    /\ tried' = Attempt(device, r.otp, FALSE)
                    /\ UNCHANGED <<users, passed>>
               ELSE /\ devices' = (devices \ {device}) \cup {saved_device}
                    /\ passed' = passed \cup {Key(device)}
                    /\ tried' = Attempt(device, r.otp, TRUE)
                    /\ IF ~api_settings.OTP_IDENTITY_UPDATE_FIELD
                       THEN /\ users' = users
                            /\ resp' = [NoResponse EXCEPT
                                  !.calls = <<<<"verify_token", Key(device)>>>>]
                       ELSE IF taken
                       THEN /\ users' = users
                            /\ resp' = [NoResponse EXCEPT !.error = IntegrityError,
                                  !.calls = <<<<"verify_token", Key(device)>>>>]
                       ELSE /\ users' = [users EXCEPT ![device.user] = row]
                            /\ resp' = [NoResponse EXCEPT
                                  !.calls = <<<<"verify_token", Key(device)>>>>,
                                  !.saved = {<<device.user, "*">>}]
            /\ UNCHANGED <<nextpk, links, AUTHENTICATION_BACKENDS,
                           simplejwt_settings, api_settings>>

\* Device.generate_challenge of django_otp: a side-channel device stores a
\* fresh random code in its one token column, over whatever was there, and
\* delivers it; the base Device, which TOTPDevice keeps, does nothing.
generate_challenge_keeps_pending(d, code) ==
    IF d.type = "totp" \/ d.token # None THEN d ELSE [d EXCEPT !.token = code]

generate_challenge(d, code) ==
    IF d.type = "totp" THEN d ELSE [d EXCEPT !.token = code]

\* POST /otp-devices/{pk}/send_otp/?type=...
OtpDeviceViewSet_send_otp ==
    \E r \in DeviceRequests, code \in Codes :
        LET found == get_object(r.caller, r.type, r.pk, devices)
            error == lookup_error(r.caller, r.type, found)
            device == CHOOSE d \in found : TRUE
        IN  /\ Idle
            /\ r.otp = None /\ ~r.lib
            /\ req' = [r EXCEPT !.op = "send_otp"]
            /\ IF error # NoError
               THEN /\ resp' = [NoResponse EXCEPT !.error = error]
                    /\ UNCHANGED <<devices, tried>>
               ELSE /\ resp' = [NoResponse EXCEPT
                          !.calls = <<<<"generate_challenge", Key(device)>>>>,
                          !.listed = {Key(device)},
                          !.sent = IF device.type = "totp" THEN None ELSE code]
                    /\ devices' = (devices \ {device})
                                      \cup {generate_challenge(device, code)}
                    /\ tried' = {t \in tried : t.key # Key(device)}
            /\ UNCHANGED <<users, nextpk, links, AUTHENTICATION_BACKENDS,
                           simplejwt_settings, api_settings, passed>>

\* Time passes between two requests.  The validity of a pending challenge
\* ends (valid_until of the side-channel device): its code verifies no more.
ChallengeExpires ==
    \E d \in devices :
        /\ Idle
        /\ d.token # None
        /\ devices' = (devices \ {d}) \cup {[d EXCEPT !.token = None]}
        /\ UNCHANGED <<users, nextpk, links, AUTHENTICATION_BACKENDS,
                       simplejwt_settings, api_settings, req, resp, passed, tried>>

\* The delay of a throttled device ends: verify_is_allowed is true again.
ThrottleEnds ==
    \E d \in devices :
        /\ Idle
        /\ d.throttled
        /\ devices' = (devices \ {d}) \cup {[d EXCEPT !.throttled = FALSE]}
        /\ UNCHANGED <<users, nextpk, links, AUTHENTICATION_BACKENDS,
                       simplejwt_settings, api_settings, req, resp, passed, tried>>

\* DELETE /otp-devices/{pk}/?type=...: DestroyModelMixin.destroy
OtpDeviceViewSet_destroy ==
    \E r \in DeviceRequests :
        LET found == get_object(r.caller, r.type, r.pk, devices)
            error == lookup_error(r.caller, r.type, found)
        IN  /\ Idle
            /\ r.otp = None /\ ~r.lib
            /\ req' = [r EXCEPT !.op = "destroy"]
            /\ resp' = [NoResponse EXCEPT !.error = error]
            /\ devices' = IF error # NoError THEN devices ELSE devices \ found
            /\ tried' = IF error # NoError THEN tried
                        ELSE {t \in tried : \A d \in found : t.key # Key(d)}
            /\ UNCHANGED <<users, nextpk, links, AUTHENTICATION_BACKENDS,
                           simplejwt_settings, api_settings, passed>>

\* GET /otp-devices/: ListModelMixin.list over get_queryset
OtpDeviceViewSet_list ==
    \E caller \in DOMAIN users \cup {Anonymous} :
        /\ Idle
        /\ req' = [op |-> "list", caller |-> caller, type |-> None, pk |-> None,
                   name |-> None, otp |-> None, lib |-> FALSE]
        /\ resp' = IF ~IsAuthenticated(caller)
                   THEN [NoResponse EXCEPT !.error = NotAuthenticated]
                   ELSE [NoResponse EXCEPT
                           !.listed = {Key(d) : d \in get_queryset(caller, devices)}]
        /\ UNCHANGED <<users, devices, nextpk, links, AUTHENTICATION_BACKENDS,
                       simplejwt_settings, api_settings, passed, tried>>

InitDevice ==
    /\ api_settings \in [OTP_IDENTITY_UPDATE_FIELD : BOOLEAN]
    /\ \E e \in {None, "a@b.com"} :
          /\ e # None => api_settings.OTP_IDENTITY_UPDATE_FIELD
          /\ users = [u \in {"u1", "u2"} |->
                        [NewUser(TRUE, Blank, Blank) EXCEPT
                           !.email = IF u = "u2" THEN e ELSE None]]
    /\ devices = {}
    /\ nextpk = [t \in get_otp_device_models |-> 1]
    /\ links = [x \in {} |-> None]
    /\ AUTHENTICATION_BACKENDS = << >>
    /\ simplejwt_settings = [UPDATE_LAST_LOGIN |-> FALSE]
    /\ req = NoRequest
    /\ resp = NoResponse
    /\ passed = {}
    /\ tried = {}

NextDevice ==
    \/ OtpDeviceViewSet_create
    \/ OtpDeviceViewSet_confirm
    \/ OtpDeviceViewSet_send_otp
    \/ OtpDeviceViewSet_destroy
    \/ OtpDeviceViewSet_list
    \/ ChallengeExpires
    \/ ThrottleEnds
    \/ EndRequest

SpecDevice == InitDevice /\ [][NextDevice]_vars

(***************************************************************************)
(* Claims about the OTP devices (SpecDevice).                              *)
(***************************************************************************)
\* The device a detail request names, among the caller's own.
Named(r, devs) == {d \in devs : Key(d) = <<r.type, r.pk>> /\ d.user = r.caller}

\* The code of request r is one device d accepts.
Accepts(d, r) ==
    /\ r.otp # None
    /\ ~d.throttled
    /\ d.type = "totp" => r.lib
    /\ d.type # "totp" => r.otp = d.token

\* C5: a device is created unconfirmed, and its confirmed flag becomes true
\* only in a confirm request on that device whose code passed the device's
\* verification, so every confirmed device has passed one; a confirm request
\* that ends in WrongOTPError changes no device's flag and no user.
C5_ConfirmedOnlyAfterVerification ==
    [][/\ \A e \in devices' :
             e.confirmed =>
               /\ Key(e) \in passed'
               /\ \/ \E d \in devices : Key(d) = Key(e) /\ d.confirmed
                  \/ /\ req'.op = "confirm"
                     /\ \E d \in Named(req', devices) :
                           /\ Key(d) = Key(e)
                           /\ Accepts(d, req')
                           /\ resp'.calls = <<<<"verify_token", Key(d)>>>>
       /\ (Idle /\ resp'.error = WrongOTPError) =>
             /\ req'.op = "confirm"
             /\ users' = users
             /\ \A d \in devices :
                   \E e \in devices' : Key(e) = Key(d) /\ e.confirmed = d.confirmed]_vars

\* C5 witness: a confirm request with a wrong code on the caller's own,
\* challenged and unconfirmed device ended in WrongOTPError.
C5_Witness ==
    /\ req.op = "confirm"
    /\ resp.error = WrongOTPError
    /\ \E d \in Named(req, devices) :
          /\ d.token \in Codes
          /\ req.otp \in Codes \ {d.token}
          /\ ~d.confirmed

\* C6: a confirm or send_otp request whose id names no device of the caller
\* fails before verify_token or generate_challenge is called and changes
\* nothing; no request changes, calls or lists a device of another user, nor
\* changes another user.
C6_OwnershipBeforeVerification ==
    [][(Idle /\ req'.op \in {"confirm", "send_otp", "destroy", "list"}) =>
        /\ (req'.op \in {"confirm", "send_otp"} /\ Named(req', devices) = {}) =>
              /\ resp'.error # NoError
              /\ resp'.calls = << >>
              /\ devices' = devices
              /\ users' = users
        /\ \A d \in devices : d.user # req'.caller => d \in devices'
        /\ \A c \in Range(resp'.calls) :
              \E d \in devices : Key(d) = c[2] /\ d.user = req'.caller
        /\ \A k \in resp'.listed :
              \E d \in devices : Key(d) = k /\ d.user = req'.caller
        /\ \A u \in DOMAIN users : u # req'.caller => users'[u] = users[u]]_vars

\* C6 witness: a confirm request naming another user's device, with the
\* code that device would accept, failed without a call.
C6_Witness ==
    /\ req.op = "confirm"
    /\ req.caller # Anonymous
    /\ resp.error = DoesNotExist
    /\ resp.calls = << >>
    /\ \E d \in devices :
          /\ Key(d) = <<req.type, req.pk>>
          /\ d.user # req.caller
          /\ Accepts(d, req)
          /\ ~d.confirmed

\* C7: a confirm request that succeeds changes, with OTP_IDENTITY_UPDATE_FIELD
\* on, exactly the caller's email to the address of an email device, exactly
\* the caller's phone_number to the number of an SMS device, and nothing for
\* a TOTP device; with the option off it changes no user.
C7_IdentityUpdateByKind ==
    [][(Idle /\ req'.op = "confirm" /\ resp'.error = NoError) =>
        \E d \in Named(req', devices) :
            LET u == req'.caller
            IN  /\ \A o \in DOMAIN users : o # u => users'[o] = users[o]
                /\ IF ~api_settings.OTP_IDENTITY_UPDATE_FIELD THEN users' = users
                   ELSE IF d.type = "email"
                   THEN users'[u] = [users[u] EXCEPT !.email = d.email]
                   ELSE IF d.type = "sms"
                   THEN users'[u] = [users[u] EXCEPT !.phone_number = d.number]
                   ELSE users'[u] = users[u]]_vars

\* C7 witness: with the option on, an email device named "a@b.com" was
\* confirmed and the caller's email is that address, the phone number unset.
C7_Witness ==
    /\ req.op = "confirm"
    /\ resp.error = NoError
    /\ api_settings.OTP_IDENTITY_UPDATE_FIELD
    /\ req.type = "email"
    /\ \E d \in Named(req, devices) : d.confirmed /\ d.email = "a@b.com"
    /\ users[req.caller].email = "a@b.com"
    /\ users[req.caller].phone_number = None

\* A confirm request on the caller's own device whose code is one that an
\* earlier confirm request submitted against the device's challenge, with
\* no send_otp on the device since.
Replays(r, devs, accepted) ==
    /\ r.op = "confirm"
    /\ Named(r, devs) # {}
    /\ \E t \in tried : /\ t.key = <<r.type, r.pk>>
                        /\ t.code = r.otp
                        /\ t.accepted \in accepted

\* C11 as stated: once a confirm request has submitted the code of a
\* device's challenge, accepted or not, a later confirm request on that
\* device with the same code and no send_otp in between ends in
\* WrongOTPError.
C11_OneAttemptPerChallenge ==
    [][(Idle /\ Replays(req', devices, BOOLEAN)) =>
          resp'.error = WrongOTPError]_vars

\* C11, amended: once a confirm request with the code of a device's
\* challenge has passed verification, a later confirm request on that device
\* with the same code and no send_otp in between ends in WrongOTPError and
\* confirms nothing.
C11_AcceptedCodeIsNotReplayed ==
    [][(Idle /\ Replays(req', devices, {TRUE})) =>
          /\ resp'.error = WrongOTPError
          /\ passed' = passed
          /\ users' = users]_vars

\* C11 witness: a second confirm request with the code that had confirmed
\* the device was rejected.
C11_Witness ==
    /\ Replays(req, devices, {TRUE})
    /\ resp.error = WrongOTPError
    /\ \E d \in Named(req, devices) : d.confirmed /\ d.token = None

\* The row of devs with the key of e, if there is one.
Before(e, devs) == {d \in devs : Key(d) = Key(e)}

\* What create and send_otp do to the challenges, for every kind of device:
\* a create request inserts its row at once, without a challenge, calling
\* and delivering nothing; a row has a pending challenge that it had not
\* only in a send_otp request on it; a send_otp request on an email or SMS
\* device leaves the code it delivers as the one pending challenge,
\* whatever was pending before.
ChallengeOnlyFromSendOtp ==
    /\ (req'.op = "create" /\ resp'.error = NoError) =>
          /\ resp'.calls = << >>
          /\ resp'.sent = None
          /\ \E e \in devices' \ devices :
                /\ devices' = devices \cup {e}
                /\ Before(e, devices) = {}
                /\ e.user = req'.caller
                /\ e.token = None
    /\ \A e \in devices' :
          (e.token # None /\ \A d \in Before(e, devices) : d.token # e.token) =>
              /\ req'.op = "send_otp"
              /\ resp'.error = NoError
              /\ Key(e) = <<req'.type, req'.pk>>
    /\ (req'.op = "send_otp" /\ resp'.error = NoError) =>
          \A e \in Named(req', devices') :
              /\ e.type = "totp" => e.token = None /\ resp'.sent = None
              /\ e.type # "totp" => e.token # None /\ e.token = resp'.sent

\* C12 as stated: create inserts the row without a challenge, a challenge
\* is pending only after a send_otp on the device and is the latest one's,
\* and a device, of any kind, is confirmed only by the code of that pending
\* challenge.
C12_OnlyLatestChallengeConfirms ==
    [][Idle =>
        /\ ChallengeOnlyFromSendOtp
        /\ (req'.op = "confirm" /\ resp'.error \in {NoError, IntegrityError}) =>
              \E d \in Named(req', devices) :
                  d.token # None /\ req'.otp = d.token]_vars

\* C12, amended: the same, where only an email or SMS device is confirmed
\* by the code of its pending challenge; a TOTP device never has a pending
\* challenge and is confirmed by a code of its own key.
C12_OnlyLatestChallengeConfirmsSideChannel ==
    [][Idle =>
        /\ ChallengeOnlyFromSendOtp
        /\ (req'.op = "confirm" /\ resp'.error \in {NoError, IntegrityError}) =>
              \E d \in Named(req', devices) :
                  IF d.type = "totp" THEN d.token = None /\ req'.otp # None
                  ELSE d.token # None /\ req'.otp = d.token]_vars

\* C12 witness: a send_otp request on an email or SMS device that an
\* earlier challenge had confirmed left the code it delivered as the
\* device's pending challenge.
C12_Witness ==
    /\ req.op = "send_otp"
    /\ resp.error = NoError
    /\ resp.sent \in Codes
    /\ \E d \in Named(req, devices) :
          /\ d.type # "totp"
          /\ d.confirmed
          /\ Key(d) \in passed
          /\ d.token = resp.sent

(***************************************************************************)
(* Social login (SocialTokenObtainSerializer, SocialTokenViewSet) and the  *)
(* older SocialAuth view set.                                              *)
(***************************************************************************)
GoogleOAuth2 == {"authenticate", "name", "do_auth"}
backend_name(backend) == "google-oauth2"

\* SocialTokenObtainSerializer.provider: the names of the backends that
\* have one
provider_choices(chain) ==
    {backend_name(chain[i]) : i \in {j \in DOMAIN chain : hasattr(chain[j], "name")}}

\* attrs.get(attr, None) of a name the body does not carry
Absent == <<"absent">>
Doe == <<"D", "o", "e">>
Ann == <<"A", "n", "n">>
Uids == {"x1", "x2"}
AuthExceptions == {"AuthCanceled", "AuthForbidden", "AuthTokenError",
                   "AuthAlreadyAssociated"}
HandshakeErrors == {"AuthCanceled", "AuthForbidden", "AuthTokenError",
                    "HTTPError", "ValueError"}

\* The id of the next user row.
NewIds == <<"u3", "u4", "u5">>
NewUsersMade == Cardinality(DOMAIN users) - 2
NextUserId == NewIds[NewUsersMade + 1]

\* user = request.user if request.user.is_authenticated else None
current_user_never(caller) == None

current_user(caller) == IF caller # Anonymous THEN caller ELSE None

\* request.backend.do_auth(access_token, user=hint) of social_core with its
\* default pipeline.  what is what the provider answers to the access token:
\* an external uid, or an exception.  A uid linked to a user gives that
\* user, unless a different user was given (AuthAlreadyAssociated); an
\* unlinked uid is linked to the user given, or to a new user made from the
\* provider's details.
do_auth(what, hint, details, us, ls) ==
    IF what \in HandshakeErrors
    THEN [raised |-> what, user |-> None, users |-> us, links |-> ls]
    ELSE IF what \in DOMAIN ls
    THEN IF hint # None /\ ls[what] # hint
         THEN [raised |-> "AuthAlreadyAssociated", user |-> None,
               users |-> us, links |-> ls]
         ELSE [raised |-> None, user |-> ls[what], users |-> us, links |-> ls]
    ELSE IF hint # None
    THEN [raised |-> None, user |-> hint, users |-> us,
          links |-> ls @@ (what :> hint)]
    ELSE [raised |-> None, user |-> NextUserId,
          users |-> us @@ (NextUserId :> NewUser(TRUE, details, Blank)),
          links |-> ls @@ (what :> NextUserId)]

\* The loop over ("first_name", "last_name") of
\* SocialTokenObtainSerializer.validate: the row after it and update_fields
backfill_overwrites(row, attrs) ==
    LET upd == {a \in {"first_name", "last_name"} : attrs[a] \notin {Absent, Blank}}
    IN  [row |-> [a \in DOMAIN row |-> IF a \in upd THEN attrs[a] ELSE row[a]],
         update_fields |-> upd]

backfill(row, attrs) ==
    LET upd == {a \in {"first_name", "last_name"} :
                   row[a] = Blank /\ attrs[a] \notin {Absent, Blank}}
    IN  [row |-> [a \in DOMAIN row |-> IF a \in upd THEN attrs[a] ELSE row[a]],
         update_fields |-> upd]

\* df_auth.permissions.IsUnauthenticated
IsUnauthenticated(caller) == caller = Anonymous

\* The callers a request can come from: anonymous, or a user who
\* authenticated, which takes an active user.
Callers == {u \in DOMAIN users : users[u].is_active} \cup {Anonymous}

SocialRequests ==
    [op : {"social", "connect"}, caller : Callers,
     provider : {"google-oauth2"}, what : Uids \cup HandshakeErrors,
     first_name : {Absent, Doe}, last_name : {Absent, Doe}, details : {Blank, Ann}]
    \cup
    [op : {"social"}, caller : {Anonymous},
     provider : {"google-oauth2", "bogus"}, what : {"x1"},
     first_name : {Absent, Blank}, last_name : {Absent}, details : {Blank}]

\* SocialTokenObtainSerializer.validate after field validation, with the
\* caller's request: the response and the store after it
SocialTokenObtainSerializer_validate(r) ==
    LET hint == current_user(r.caller)
        auth == do_auth(r.what, hint, r.details, users, links)
        shake == [called |-> TRUE, hint |-> hint, user |-> auth.user,
                  row |-> IF auth.user = None THEN NoHandshake.row
                          ELSE auth.users[auth.user]]
        filled == backfill(shake.row, r)
        us1 == IF auth.user = None THEN auth.users
               ELSE [auth.users EXCEPT ![auth.user] = filled.row]
        out == TokenCreateSerializer_validate(auth.user, us1)
    IN  IF auth.raised \in {"AuthCanceled", "AuthForbidden"}
        THEN [resp |-> [NoResponse EXCEPT !.error = AuthenticationFailed_default,
                                          !.handshake = shake],
              users |-> users, links |-> links]
        ELSE IF auth.raised # None
        THEN [resp |-> [NoResponse EXCEPT !.error = [exc |-> auth.raised, code |-> None],
                                          !.handshake = shake],
              users |-> users, links |-> links]
        ELSE [resp |-> [NoResponse EXCEPT !.error = out.error, !.token = out.token,
                          !.user = auth.user, !.handshake = shake,
                          !.saved = {<<auth.user, a>> : a \in filled.update_fields}
                                    \cup out.saved],
              users |-> out.users, links |-> auth.links]

\* POST /social/ (SocialTokenViewSet.create, IsUnauthenticated) and
\* POST /social/connect/ (SocialTokenViewSet.connect, IsAuthenticated)
SocialTokenViewSet_create ==
    \E r \in SocialRequests :
        LET denied == IF r.op = "connect" THEN ~IsAuthenticated(r.caller)
                      ELSE ~IsUnauthenticated(r.caller)
            invalid == \/ r.provider \notin provider_choices(AUTHENTICATION_BACKENDS)
                       \/ r.first_name = Blank
                       \/ r.last_name = Blank
            out == SocialTokenObtainSerializer_validate(r)
            creates == DOMAIN out.users # DOMAIN users
        IN  /\ Idle
            /\ (~denied /\ ~invalid /\ creates) => NewUsersMade < MaxNewUsers
            /\ req' = r
            /\ IF denied
               THEN /\ resp' = [NoResponse EXCEPT !.error =
                          IF r.caller = Anonymous THEN NotAuthenticated
                          ELSE PermissionDenied]
                    /\ UNCHANGED <<users, links>>
               ELSE IF invalid
               THEN /\ resp' = [NoResponse EXCEPT !.error = ValidationError]
                    /\ UNCHANGED <<users, links>>
               ELSE /\ resp' = out.resp
                    /\ users' = out.users
                    /\ links' = out.links
            /\ UNCHANGED <<devices, nextpk, AUTHENTICATION_BACKENDS,
                           simplejwt_settings, api_settings, passed, tried>>

\* The TokenObtainSerializer of df_auth/serializers.py that SocialAuth.signin
\* validates with serializer.user set: the Token Issuer, which fails with
\* AuthenticationFailed unless the user passes the authentication rule, and
\* else mints a token and, if configured, records the last login.
LegacyTokenObtainSerializer_validate(user, us) ==
    IF user = None \/ ~us[user].is_active
    THEN [error |-> AuthenticationFailed_default, token |-> None,
          users |-> us, saved |-> {}]
    ELSE [error |-> NoError, token |-> <<"token", user>>,
          users |-> IF simplejwt_settings.UPDATE_LAST_LOGIN
                    THEN [us EXCEPT ![user].last_login = Stamped] ELSE us,
          saved |-> IF simplejwt_settings.UPDATE_LAST_LOGIN
                    THEN {<<user, "last_login">>} ELSE {}]

\* return response.Response("something wrong happened", status.HTTP_400_BAD_REQUEST)
BadRequest == [exc |-> "HTTP_400_BAD_REQUEST", code |-> "something wrong happened"]

\* except (AuthException, HTTPError) in SocialAuth.signin
signin_catches(raised) == raised \in AuthExceptions \cup {"HTTPError"}

\* SocialAuth.get_object: user_is_authenticated(user) and user or None, then
\* request.backend.complete(user=user)
SocialAuth_get_object(r) ==
    do_auth(r.what, IF r.caller # Anonymous THEN r.caller ELSE None,
            r.details, users, links)

\* POST signin (and connect, which calls it behind IsAuthenticated) of the
\* SocialAuth view set of df_auth/viewsets.py
SocialAuth_signin ==
    \E r \in SocialRequests :
        LET auth == SocialAuth_get_object(r)
            shake == [called |-> TRUE,
                      hint |-> IF r.caller # Anonymous THEN r.caller ELSE None,
                      user |-> auth.user,
                      row |-> IF auth.user = None THEN NoHandshake.row
                              ELSE auth.users[auth.user]]
            out == LegacyTokenObtainSerializer_validate(auth.user, auth.users)
            creates == DOMAIN auth.users # DOMAIN users
            denied == r.op = "connect" /\ ~IsAuthenticated(r.caller)
        IN  /\ Idle
            /\ r.provider = "google-oauth2"
            /\ r.first_name = Absent /\ r.last_name = Absent
            /\ (~denied /\ creates) => NewUsersMade < MaxNewUsers
            /\ req' = [r EXCEPT !.op = IF r.op = "connect" THEN "legacy_connect"
                                       ELSE "signin"]
            /\ IF denied
               THEN /\ resp' = [NoResponse EXCEPT !.error = NotAuthenticated]
                    /\ UNCHANGED <<users, links>>
               ELSE IF auth.raised # None
               THEN /\ resp' = [NoResponse EXCEPT !.handshake = shake, !.error =
                          IF signin_catches(auth.raised) THEN BadRequest
                          ELSE [exc |-> auth.raised, code |-> None]]
                    /\ UNCHANGED <<users, links>>
               ELSE /\ resp' = [NoResponse EXCEPT !.error = out.error,
                          !.token = out.token, !.user = auth.user,
                          !.handshake = shake, !.saved = out.saved]
                    /\ users' = out.users
                    /\ links' = auth.links
            /\ UNCHANGED <<devices, nextpk, AUTHENTICATION_BACKENDS,
                           simplejwt_settings, api_settings, passed, tried>>

InitSocial ==
    /\ \E active \in BOOLEAN :
          users = [u \in {"u1", "u2"} |->
                     IF u = "u1" THEN NewUser(TRUE, Blank, Blank)
                     ELSE NewUser(active, Ann, Blank)]
    /\ devices = {}
    /\ nextpk = [t \in get_otp_device_models |-> 1]
    /\ links = ("x2" :> "u2")
    /\ AUTHENTICATION_BACKENDS = <<ModelBackend, GoogleOAuth2>>
    /\ simplejwt_settings \in [UPDATE_LAST_LOGIN : BOOLEAN]
    /\ api_settings = [OTP_IDENTITY_UPDATE_FIELD |-> TRUE]
    /\ req = NoRequest
    /\ resp = NoResponse
    /\ passed = {}
    /\ tried = {}

NextSocial == SocialTokenViewSet_create \/ SocialAuth_signin \/ EndRequest

SpecSocial == InitSocial /\ [][NextSocial]_vars

(***************************************************************************)
(* Claims about the social handshake (SpecSocial).                         *)
(***************************************************************************)
NameFields == {"first_name", "last_name"}

\* C8: after a successful handshake in POST /social/ or /social/connect/,
\* each of first_name and last_name of the user is the supplied value if the
\* user's value was empty and a non-empty one was supplied, and is the
\* user's earlier value otherwise; exactly the name fields that changed are
\* written, and none is when none changed.
C8_BackfillOnlyEmptyNames ==
    (req.op \in {"social", "connect"} /\ resp.handshake.user # None) =>
        LET user == resp.handshake.user
            before == resp.handshake.row
        IN  /\ \A a \in NameFields :
                  users[user][a] =
                      IF before[a] = Blank /\ req[a] \notin {Absent, Blank}
                      THEN req[a] ELSE before[a]
            /\ {a \in NameFields : <<user, a>> \in resp.saved}
                  = {a \in NameFields : users[user][a] # before[a]}
            /\ \A w \in resp.saved : w[1] = user

\* C8 witness: a user with a first name and no last name, both names
\* supplied: the first name is kept, the last name filled in and written.
C8_Witness ==
    /\ req.op = "social"
    /\ resp.handshake.user # None
    /\ resp.handshake.row.first_name = Ann
    /\ resp.handshake.row.last_name = Blank
    /\ req.first_name = Doe
    /\ req.last_name = Doe
    /\ users[resp.handshake.user].first_name = Ann
    /\ users[resp.handshake.user].last_name = Doe
    /\ <<resp.handshake.user, "last_name">> \in resp.saved
    /\ <<resp.handshake.user, "first_name">> \notin resp.saved

SocialOps == {"social", "connect", "signin", "legacy_connect"}

\* C9: a social login whose handshake raises AuthCanceled or AuthForbidden
\* fails with the plain AuthenticationFailed, with no token and no write;
\* any other exception of the handshake reaches the caller as it is.
C9_OnlyCancelAndForbiddenCaught ==
    (req.op \in SocialOps /\ resp.handshake.called /\ req.what \in HandshakeErrors) =>
        /\ resp.token = None
        /\ resp.saved = {}
        /\ IF req.what \in {"AuthCanceled", "AuthForbidden"}
           THEN resp.error = AuthenticationFailed_default
           ELSE resp.error = [exc |-> req.what, code |-> None]

\* What holds of SocialTokenObtainSerializer.validate alone.
C9_SerializerCatchesNarrowly ==
    (req.op \in {"social", "connect"} /\ resp.handshake.called
        /\ req.what \in HandshakeErrors) =>
        /\ resp.token = None
        /\ resp.saved = {}
        /\ IF req.what \in {"AuthCanceled", "AuthForbidden"}
           THEN resp.error = AuthenticationFailed_default
           ELSE resp.error = [exc |-> req.what, code |-> None]

\* What SocialAuth.signin does instead: every AuthException and HTTPError of
\* the handshake becomes the 400 response.
C9_SigninCatchesBroadly ==
    (req.op \in {"signin", "legacy_connect"} /\ resp.handshake.called
        /\ req.what \in HandshakeErrors) =>
        resp.error = IF req.what = "ValueError"
                     THEN [exc |-> "ValueError", code |-> None] ELSE BadRequest

\* C10: POST /social/connect/ runs the handshake only for an authenticated
\* caller and gives it that caller as the current user; a token it returns
\* is the caller's and it adds no user; POST /social/ runs the handshake
\* only for an unauthenticated caller, with no current user.
C10_HandshakeGetsCallersUser ==
    [][(Idle /\ req'.op \in {"social", "connect"}) =>
        /\ req'.op = "connect" =>
              /\ resp'.handshake.called => /\ req'.caller # Anonymous
                                           /\ resp'.handshake.hint = req'.caller
              /\ req'.caller = Anonymous => users' = users /\ links' = links
              /\ resp'.token # None =>
                    /\ resp'.token = <<"token", req'.caller>>
                    /\ links'[req'.what] = req'.caller
              /\ DOMAIN users' = DOMAIN users
        /\ req'.op = "social" =>
              /\ resp'.handshake.called => /\ req'.caller = Anonymous
                                           /\ resp'.handshake.hint = None
              /\ req'.caller # Anonymous => users' = users /\ links' = links]_vars

\* C10 witness: an authenticated caller connected an identity no user was
\* linked to: the token is the caller's, the identity is linked to the
\* caller and no user was added.
C10_Witness ==
    /\ req.op = "connect"
    /\ req.caller = "u1"
    /\ req.what = "x1"
    /\ resp.token = <<"token", "u1">>
    /\ links = ("x1" :> "u1") @@ ("x2" :> "u2")
    /\ DOMAIN users = {"u1", "u2"}

=============================================================================
